---- MODULE Spec2Model ----
(***************************************************************************)
(* The Hangman engine of src/hangman.py: HangmanState, HangmanEngine and   *)
(* _normalize_answer, as a state machine over the engine's fields.         *)
(*                                                                         *)
(* A Python str is a sequence of one-character strings; a letter argument  *)
(* that may be None is Str(s) or None.  _game_state is None or a record    *)
(* [answer, lives, guessed].                                               *)
(***************************************************************************)
EXTENDS Integers, Sequences, FiniteSets, TLC

VARIABLES
    _lexicon,     \* HangmanEngine._lexicon: the filtered word pool
    _idioms,      \* HangmanEngine._idioms: the filtered phrase pool
    _life_pool,   \* HangmanEngine._life_pool
    _game_state,  \* HangmanEngine._game_state
    _prng,        \* HangmanEngine._prng: the number of draws taken from it
    timeouts,     \* timeout() calls applied to the current round
    call,         \* the last call made on the engine
    outcome,      \* what that call returned or raised
    prev,         \* _game_state and _prng as they were when that call was made
    heap,         \* the HangmanState and set objects of the engine, by reference
    gui,          \* run_gui: its timer, its buttons and its dialog
    cli           \* run_cli and timed_input: the loop, the reader threads, stdin

vars == <<_lexicon, _idioms, _life_pool, _game_state, _prng, timeouts, call, outcome, prev,
          heap, gui, cli>>

----------------------------------------------------------------------------
(* Bounds of the model *)

\* the configured life counts range over 0..MaxLives
MaxLives == 2
\* at most this many HangmanState objects are created on one engine
MaxObjects == 3
\* at most this many turns (calls of timed_input) are played in the CLI
MaxTurns == 3
\* at most this many lines are typed by the player in the CLI
MaxLines == 3
\* at most this many timeout() calls are applied to one round
MaxTimeouts == 2
\* at most this many rounds are started on one engine
MaxDraws == 2

----------------------------------------------------------------------------
(* Python values *)

None == [none |-> TRUE]
Str(s) == [str |-> s]

MASK_CHAR == "_"

ascii_uppercase ==
    << "A", "B", "C", "D", "E", "F", "G", "H", "I", "J", "K", "L", "M",
       "N", "O", "P", "Q", "R", "S", "T", "U", "V", "W", "X", "Y", "Z" >>

ascii_lowercase ==
    << "a", "b", "c", "d", "e", "f", "g", "h", "i", "j", "k", "l", "m",
       "n", "o", "p", "q", "r", "s", "t", "u", "v", "w", "x", "y", "z" >>

\* the characters str.strip() removes
whitespace == {" ", "\t", "\n"}

Chars(s) == {s[i] : i \in DOMAIN s}

\* ch in s, for a one-character ch and a str s
In(ch, s) == \E i \in DOMAIN s : s[i] = ch

\* str.upper() of one character (ASCII: the inputs below are ASCII)
Upper(ch) ==
    IF In(ch, ascii_lowercase)
    THEN ascii_uppercase[CHOOSE i \in DOMAIN ascii_lowercase : ascii_lowercase[i] = ch]
    ELSE ch

\* str.upper()
StrUpper(s) == [i \in DOMAIN s |-> Upper(s[i])]

SetMin(S) == CHOOSE x \in S : \A y \in S : x <= y
SetMax(S) == CHOOSE x \in S : \A y \in S : x >= y

\* str.strip()
Strip(s) ==
    LET keep == {i \in DOMAIN s : s[i] \notin whitespace}
    IN  IF keep = {} THEN << >> ELSE SubSeq(s, SetMin(keep), SetMax(keep))

\* text_input or ""
OrEmpty(x) == IF x = None THEN << >> ELSE x.str

----------------------------------------------------------------------------
(* _normalize_answer *)

_normalize_answer_letters_only(text_input) ==
    LET src == StrUpper(OrEmpty(text_input))
    IN  Strip(SelectSeq(src, LAMBDA ch : In(ch, ascii_uppercase)))

_normalize_answer_nostrip(text_input) ==
    LET src == StrUpper(OrEmpty(text_input))
    IN  SelectSeq(src, LAMBDA ch : In(ch, ascii_uppercase \o << " " >>))

_normalize_answer(text_input) ==
    LET src == StrUpper(OrEmpty(text_input))
    IN  Strip(SelectSeq(src, LAMBDA ch : In(ch, ascii_uppercase \o << " " >>)))

----------------------------------------------------------------------------
(* HangmanState *)

HangmanState(answer, lives, guessed) ==
    [answer |-> answer, lives |-> lives, guessed |-> guessed]

\* " ".join(tokens)
RECURSIVE Join(_)
Join(tokens) ==
    IF Len(tokens) = 0 THEN << >>
    ELSE IF Len(tokens) = 1 THEN << tokens[1] >>
    ELSE << tokens[1], " " >> \o Join(Tail(tokens))

masked_token(self, ch) ==
    IF ch = " " \/ ch \in self.guessed THEN ch ELSE MASK_CHAR

masked(self) ==
    Join([i \in DOMAIN self.answer |-> masked_token(self, self.answer[i])])

is_won(self) ==
    \A i \in DOMAIN self.answer :
        self.answer[i] = " " \/ self.answer[i] \in self.guessed

is_lost_lives_only(self) == self.lives <= 0

is_lost_below_zero(self) == self.lives < 0 /\ ~is_won(self)

is_lost(self) == self.lives <= 0 /\ ~is_won(self)

----------------------------------------------------------------------------
(* HangmanEngine *)

Return(value) == [kind |-> "return", value |-> value]
Raise(type, msg) == [kind |-> "raise", type |-> type, msg |-> msg]

NotStarted == Raise("RuntimeError", "game not started")
BadDifficulty == Raise("ValueError", "difficulty must be 'basic' or 'intermediate'")

\* [w.strip() for w in words if w and w.strip()]
Pool(raw) ==
    LET kept == SelectSeq(raw, LAMBDA w : Len(w) > 0 /\ Len(Strip(w)) > 0)
    IN  [i \in DOMAIN kept |-> Strip(kept[i])]

Difficulties == {"basic", "intermediate"}

\* the sequence start() draws from
StartPool(difficulty) == IF difficulty = "basic" THEN _lexicon ELSE _idioms

\* the state start() stores, pick being the index random.choice draws
start_state(difficulty, pick) ==
    HangmanState(_normalize_answer(Str(StartPool(difficulty)[pick])), _life_pool, {})

\* HangmanEngine.start: the state it stores, the draws it takes from the random
\* source, and what it returns or raises
start_draw_first(gs, difficulty, pick) ==
    IF difficulty \notin Difficulties
    THEN [state |-> gs, drawn |-> 1, out |-> BadDifficulty]
    ELSE [state |-> start_state(difficulty, pick), drawn |-> 1,
          out |-> Return(start_state(difficulty, pick))]

start(gs, difficulty, pick) ==
    IF difficulty \notin Difficulties
    THEN [state |-> gs, drawn |-> 0, out |-> BadDifficulty]
    ELSE [state |-> start_state(difficulty, pick), drawn |-> 1,
          out |-> Return(start_state(difficulty, pick))]

\* token = (letter or "").strip().upper()
guess_token_no_upper(letter) == Strip(OrEmpty(letter))

guess_token(letter) == StrUpper(Strip(OrEmpty(letter)))

\* not (len(token) != 1 or token not in string.ascii_uppercase)
guess_valid_any_char(token) == Len(token) = 1

guess_valid(token) == Len(token) = 1 /\ In(token[1], ascii_uppercase)

\* the state guess() stores for a valid token that is not in guessed
guess_new_state_reward(gs, token) ==
    HangmanState(gs.answer,
                 gs.lives + (IF In(token[1], gs.answer) THEN 1 ELSE -1),
                 gs.guessed \cup {token[1]})

guess_new_state_always_penalty(gs, token) ==
    HangmanState(gs.answer, gs.lives - 1, gs.guessed \cup {token[1]})

guess_new_state(gs, token) ==
    HangmanState(gs.answer,
                 gs.lives - (IF In(token[1], gs.answer) THEN 0 ELSE 1),
                 gs.guessed \cup {token[1]})

\* the state guess() stores for a token, in an active round
guess_apply_repeat_penalty(gs, token) ==
    IF ~guess_valid(token) THEN gs
    ELSE guess_new_state(gs, token)

guess_apply(gs, token) ==
    IF ~guess_valid(token) THEN gs
    ELSE IF token[1] \in gs.guessed THEN gs
    ELSE guess_new_state(gs, token)

\* HangmanEngine.guess: the state it stores and what it returns or raises
guess(gs, letter) ==
    IF gs = None THEN [state |-> gs, out |-> NotStarted]
    ELSE [state |-> guess_apply(gs, guess_token(letter)),
          out |-> Return(guess_apply(gs, guess_token(letter)))]

\* the state timeout() stores
timeout_state_reset_guessed(gs) == HangmanState(gs.answer, gs.lives - 1, {})

timeout_state_floor(gs) ==
    HangmanState(gs.answer, IF gs.lives > 0 THEN gs.lives - 1 ELSE 0, gs.guessed)

timeout_state(gs) == HangmanState(gs.answer, gs.lives - 1, gs.guessed)

\* HangmanEngine.timeout
timeout(gs) ==
    IF gs = None THEN [state |-> gs, out |-> NotStarted]
    ELSE [state |-> timeout_state(gs), out |-> Return(timeout_state(gs))]

\* HangmanEngine.state
state_no_raise(gs) == Return(gs)

state(gs) == IF gs = None THEN NotStarted ELSE Return(gs)

----------------------------------------------------------------------------
(* The inputs *)

\* words and phrases as given to HangmanEngine(words, phrases, lives)
PoolConfigs ==
    { [words   |-> << <<"A", "B", "A">> >>,
       phrases |-> << <<"a", " ", "!">>, <<"B", " ", "A">> >>],
      [words   |-> << << >>, <<"a", " ", "-", "1">>, <<"1">>, <<" ", "\t">> >>,
       phrases |-> << <<"b", " ", " ", "a", "!">>, <<"\t", "y", " ", "z", "\n">> >>] }

LivesChoices == 0 .. MaxLives

DifficultyInputs == {"basic", "intermediate", "Basic", "hard", ""}

GuessInputs ==
    { None, Str(<< >>), Str(<<" ">>), Str(<<"1">>), Str(<<"a", "b">>),
      Str(<<"a">>), Str(<<"A">>), Str(<<"b">>), Str(<<"B">>),
      Str(<<"z">>), Str(<<"Z">>), Str(<<" ", "y", "\n">>), Str(<<"_">>) }

----------------------------------------------------------------------------
(* The state machine *)

Snapshot == [state |-> _game_state, prng |-> _prng]

\* the parts of the program that are not running
NoHeap == [objects |-> << >>, sets |-> << >>, engine |-> 0, held |-> 0, seen |-> None]
NoGui == [running |-> FALSE]
NoCli == [running |-> FALSE]

\* HangmanEngine.__init__, with pools that pass its checks
Init ==
    \E cfg \in PoolConfigs, lives \in LivesChoices :
        /\ Len(Pool(cfg.words)) > 0
        /\ Len(Pool(cfg.phrases)) > 0
        /\ _lexicon = Pool(cfg.words)
        /\ _idioms = Pool(cfg.phrases)
        /\ _life_pool = lives
        /\ _game_state = None
        /\ _prng = 0
        /\ timeouts = 0
        /\ call = [op |-> "__init__"]
        /\ outcome = Return(None)
        /\ prev = [state |-> None, prng |-> 0]
        /\ heap = NoHeap
        /\ gui = NoGui
        /\ cli = NoCli

\* start(difficulty)
Start ==
    \E difficulty \in DifficultyInputs :
        \E pick \in DOMAIN StartPool(difficulty) :
            /\ _prng + start(_game_state, difficulty, pick).drawn <= MaxDraws
            /\ _game_state' = start(_game_state, difficulty, pick).state
            /\ _prng' = _prng + start(_game_state, difficulty, pick).drawn
            /\ outcome' = start(_game_state, difficulty, pick).out
            /\ timeouts' = IF start(_game_state, difficulty, pick).out.kind = "return"
                           THEN 0 ELSE timeouts
            /\ call' = [op |-> "start", arg |-> difficulty]
            /\ prev' = Snapshot
            /\ UNCHANGED <<_lexicon, _idioms, _life_pool, heap, gui, cli>>

\* the state property
State ==
    /\ outcome' = state(_game_state)
    /\ call' = [op |-> "state"]
    /\ prev' = Snapshot
    /\ UNCHANGED <<_lexicon, _idioms, _life_pool, _game_state, _prng, timeouts, heap, gui, cli>>

\* guess(letter)
Guess ==
    \E letter \in GuessInputs :
        /\ _game_state' = guess(_game_state, letter).state
        /\ outcome' = guess(_game_state, letter).out
        /\ call' = [op |-> "guess", arg |-> letter]
        /\ prev' = Snapshot
        /\ UNCHANGED <<_lexicon, _idioms, _life_pool, _prng, timeouts, heap, gui, cli>>

\* timeout()
Timeout ==
    /\ timeouts < MaxTimeouts
    /\ _game_state' = timeout(_game_state).state
    /\ outcome' = timeout(_game_state).out
    /\ timeouts' = IF _game_state = None THEN timeouts ELSE timeouts + 1
    /\ call' = [op |-> "timeout"]
    /\ prev' = Snapshot
    /\ UNCHANGED <<_lexicon, _idioms, _life_pool, _prng, heap, gui, cli>>

Next == Start \/ State \/ Guess \/ Timeout

Spec == Init /\ [][Next]_vars

----------------------------------------------------------------------------
(* The engine's objects, by reference.  A HangmanState object is an index   *)
(* into heap.objects and its guessed field an index into heap.sets; 0 is    *)
(* None.  heap.engine is HangmanEngine._game_state; heap.held is a snapshot *)
(* the caller retained and heap.seen what it showed when it was returned.   *)

\* set(src): a new set object with the elements of src
set_copy_alias(sets, src) == [sets |-> sets, ref |-> src]

set_copy(sets, src) == [sets |-> Append(sets, sets[src]), ref |-> Len(sets) + 1]

\* what a snapshot shows: its answer, its lives and the elements of its guessed
Deref(h, ref) ==
    HangmanState(h.objects[ref].answer, h.objects[ref].lives,
                 h.sets[h.objects[ref].guessed])

\* self._game_state = HangmanState(answer, lives, guessed), guessed a reference
store_state(h, sets, answer, lives, guessed) ==
    [h EXCEPT !.sets = sets,
              !.objects = Append(h.objects, HangmanState(answer, lives, guessed)),
              !.engine = Len(h.objects) + 1]

\* HangmanEngine.start: the heap it leaves and the reference it returns, 0 when
\* it raises
heap_start(h, difficulty, pick) ==
    IF difficulty \notin Difficulties THEN [heap |-> h, ret |-> 0]
    ELSE [heap |-> store_state(h, Append(h.sets, {}),
                               start_state(difficulty, pick).answer,
                               start_state(difficulty, pick).lives,
                               Len(h.sets) + 1),
          ret |-> Len(h.objects) + 1]

\* HangmanEngine.guess
heap_guess(h, letter) ==
    IF h.engine = 0 THEN [heap |-> h, ret |-> 0]
    ELSE LET old == h.objects[h.engine]
             token == guess_token(letter)
             new_guessed == set_copy(h.sets, old.guessed)
         IN  IF ~guess_valid(token) THEN [heap |-> h, ret |-> h.engine]
             ELSE IF token[1] \in h.sets[old.guessed] THEN [heap |-> h, ret |-> h.engine]
             ELSE [heap |-> store_state(
                                h,
                                [new_guessed.sets EXCEPT ![new_guessed.ref] = @ \cup {token[1]}],
                                old.answer,
                                old.lives - (IF In(token[1], old.answer) THEN 0 ELSE 1),
                                new_guessed.ref),
                   ret |-> Len(h.objects) + 1]

\* HangmanEngine.timeout
heap_timeout(h) ==
    IF h.engine = 0 THEN [heap |-> h, ret |-> 0]
    ELSE LET old == h.objects[h.engine]
             new_guessed == set_copy(h.sets, old.guessed)
         IN  [heap |-> store_state(h, new_guessed.sets, old.answer, old.lives - 1,
                                   new_guessed.ref),
              ret |-> Len(h.objects) + 1]

\* the caller keeps the snapshot a call returned, or lets it go
Retain(h, ret, keep) ==
    IF keep /\ ret # 0
    THEN [h EXCEPT !.held = ret, !.seen = Deref(h, ret)]
    ELSE h

HeapInit ==
    \E cfg \in PoolConfigs, lives \in LivesChoices :
        /\ Len(Pool(cfg.words)) > 0
        /\ Len(Pool(cfg.phrases)) > 0
        /\ _lexicon = Pool(cfg.words)
        /\ _idioms = Pool(cfg.phrases)
        /\ _life_pool = lives
        /\ _game_state = None
        /\ _prng = 0
        /\ timeouts = 0
        /\ call = [op |-> "__init__"]
        /\ outcome = Return(None)
        /\ prev = [state |-> None, prng |-> 0]
        /\ heap = NoHeap
        /\ gui = NoGui
        /\ cli = NoCli

HeapFrame ==
    UNCHANGED <<_lexicon, _idioms, _life_pool, _game_state, _prng, timeouts,
                call, outcome, prev, gui, cli>>

\* start(difficulty)
HeapStart ==
    \E difficulty \in DifficultyInputs, keep \in BOOLEAN :
        \E pick \in DOMAIN StartPool(difficulty) :
            /\ Len(heap_start(heap, difficulty, pick).heap.objects) <= MaxObjects
            /\ heap' = Retain(heap_start(heap, difficulty, pick).heap,
                              heap_start(heap, difficulty, pick).ret, keep)
            /\ HeapFrame

\* the state property
HeapState ==
    \E keep \in BOOLEAN :
        /\ heap.engine # 0
        /\ heap' = Retain(heap, heap.engine, keep)
        /\ HeapFrame

\* guess(letter)
HeapGuess ==
    \E letter \in GuessInputs, keep \in BOOLEAN :
        /\ Len(heap_guess(heap, letter).heap.objects) <= MaxObjects
        /\ heap' = Retain(heap_guess(heap, letter).heap, heap_guess(heap, letter).ret, keep)
        /\ HeapFrame

\* timeout()
HeapTimeout ==
    \E keep \in BOOLEAN :
        /\ Len(heap_timeout(heap).heap.objects) <= MaxObjects
        /\ heap' = Retain(heap_timeout(heap).heap, heap_timeout(heap).ret, keep)
        /\ HeapFrame

HeapNext == HeapStart \/ HeapState \/ HeapGuess \/ HeapTimeout

SpecHeap == HeapInit /\ [][HeapNext]_vars

----------------------------------------------------------------------------
(* run_gui.  Every handler runs to its end on the one Tk thread, except that *)
(* end_round opens a modal dialog: gui.modal names the handler that waits    *)
(* for it, and until it is closed only timer callbacks can run.              *)
(* gui.pending holds the ids of the after() jobs that are scheduled,         *)
(* gui.tick_handle is tick_handle["id"] (0 for None), gui.tick_box is        *)
(* tick_box["value"], gui.normal the letters whose button is enabled.        *)

\* core = HangmanEngine(WORDS, PHRASES, lives=6)
GuiLives == 6
\* tick_box["value"] = 15
TurnSeconds == 15

\* WORDS and PHRASES: one entry of each
WORDS == << <<"t", "r", "e", "e">> >>
PHRASES == << <<"u", "n", "i", "t", " ", "t", "e", "s", "t", "s">> >>

\* the letter buttons the player clicks
ClickLetters == {"T", "R", "E", "Z"}

\* the texts the player submits from the entry field
FieldInputs ==
    { << >>, <<"1">>, <<"e">>, <<"T">>, <<" ", "z", "q">> }

Terminal(s) == is_won(s) \/ is_lost(s)

\* app.after(1000, on_tick): the id of the new job
FreshJob(g) ==
    CHOOSE j \in 1 .. Cardinality(g.pending) + 2 :
        /\ j \notin g.pending \cup {g.tick_handle}
        /\ \A k \in 1 .. j - 1 : k \in g.pending \cup {g.tick_handle}

halt_timer(g) ==
    IF g.tick_handle # 0
    THEN [g EXCEPT !.pending = @ \ {g.tick_handle}, !.tick_handle = 0]
    ELSE g

reset_timer_no_halt(g) ==
    [g EXCEPT !.tick_box = TurnSeconds,
              !.tick_handle = FreshJob(g),
              !.pending = @ \cup {FreshJob(g)}]

reset_timer(g) ==
    [halt_timer(g) EXCEPT !.tick_box = TurnSeconds,
                          !.tick_handle = FreshJob(halt_timer(g)),
                          !.pending = @ \cup {FreshJob(halt_timer(g))}]

\* end_round, up to the dialog it opens; where is the handler that waits
end_round_no_halt(g, where) == [g EXCEPT !.normal = {}, !.modal = where]

end_round(g, where) == [halt_timer(g) EXCEPT !.normal = {}, !.modal = where]

\* refresh_view, s being core.state
refresh_view(g, s, where) ==
    IF Terminal(s)
    THEN end_round([g EXCEPT !.normal = @ \ s.guessed], where)
    ELSE [g EXCEPT !.normal = @ \ s.guessed]

\* make_guess after core.guess(letter), s being core.state
make_guess(g, s) ==
    IF Terminal(s) THEN refresh_view(g, s, "make_guess")
    ELSE reset_timer(refresh_view(g, s, "make_guess"))

\* on_tick once tick_box["value"] has been counted down, s being core.state
\* after core.timeout() when the count reached 0
on_tick(g, s) ==
    IF g.tick_box <= 0
    THEN IF Terminal(s) THEN refresh_view(g, s, "on_tick")
         ELSE reset_timer(refresh_view(g, s, "on_tick"))
    ELSE [g EXCEPT !.tick_handle = FreshJob(g), !.pending = @ \cup {FreshJob(g)}]

\* begin_round after core.start(level_mode.get()), s being core.state
begin_round(g, s) ==
    refresh_view(reset_timer([g EXCEPT !.normal = Chars(ascii_uppercase)]), s,
                 "begin_round")

\* what the waiting handler does once the dialog is closed
after_dialog(g, s) ==
    IF g.modal = "make_guess"
    THEN IF Terminal(s) THEN [g EXCEPT !.modal = ""]
         ELSE reset_timer([g EXCEPT !.modal = ""])
    ELSE IF g.modal = "on_tick"
    THEN IF Terminal(s) THEN halt_timer([g EXCEPT !.modal = ""])
         ELSE reset_timer([g EXCEPT !.modal = ""])
    ELSE [g EXCEPT !.modal = ""]

\* token = raw_val[:1].upper() if raw_val else ""
field_token(raw) ==
    IF Len(Strip(raw)) = 0 THEN << >> ELSE << Upper(Strip(raw)[1]) >>

GuiInit ==
    /\ _lexicon = Pool(WORDS)
    /\ _idioms = Pool(PHRASES)
    /\ _life_pool = GuiLives
    /\ _game_state = None
    /\ _prng = 0
    /\ timeouts = 0
    /\ call = [op |-> "__init__"]
    /\ outcome = Return(None)
    /\ prev = [state |-> None, prng |-> 0]
    /\ heap = NoHeap
    /\ gui = [running |-> TRUE, tick_box |-> TurnSeconds, tick_handle |-> 0,
              pending |-> {}, normal |-> {}, modal |-> ""]
    /\ cli = NoCli

GuiFrame == UNCHANGED <<_lexicon, _idioms, _life_pool, heap, cli>>

\* the engine is left as it is
GuiNoCall == UNCHANGED <<_game_state, _prng, timeouts, call, outcome, prev>>

\* core.guess(letter) followed by make_guess's view and timer work
GuiGuess(letter) ==
    /\ _game_state' = guess(_game_state, letter).state
    /\ outcome' = guess(_game_state, letter).out
    /\ call' = [op |-> "guess", arg |-> letter]
    /\ prev' = Snapshot
    /\ UNCHANGED <<_prng, timeouts>>

\* 'Start / New Round'
GuiBeginRound ==
    \E difficulty \in Difficulties :
        \E pick \in DOMAIN StartPool(difficulty) :
            /\ gui.modal = ""
            /\ _prng < MaxDraws
            /\ _game_state' = start(_game_state, difficulty, pick).state
            /\ _prng' = _prng + start(_game_state, difficulty, pick).drawn
            /\ outcome' = start(_game_state, difficulty, pick).out
            /\ timeouts' = 0
            /\ call' = [op |-> "start", arg |-> difficulty]
            /\ prev' = Snapshot
            /\ gui' = begin_round(gui, _game_state')
            /\ GuiFrame

\* handle_guess_click on an enabled letter button
GuiClick ==
    \E ch \in ClickLetters :
        /\ gui.modal = ""
        /\ ch \in gui.normal
        /\ GuiGuess(Str(<< ch >>))
        /\ gui' = make_guess([gui EXCEPT !.normal = @ \ {ch}], _game_state')
        /\ GuiFrame

\* submit_from_field gets as far as make_guess: a round has started, the token
\* is a letter and its button is enabled
field_accepted(g, gs, raw) ==
    /\ gs # None
    /\ Len(field_token(raw)) = 1
    /\ In(field_token(raw)[1], ascii_uppercase)
    /\ field_token(raw)[1] \in g.normal

\* submit_from_field with a letter whose button is enabled
GuiSubmit ==
    \E raw \in FieldInputs :
        /\ gui.modal = ""
        /\ field_accepted(gui, _game_state, raw)
        /\ GuiGuess(Str(field_token(raw)))
        /\ gui' = make_guess([gui EXCEPT !.normal = @ \ {field_token(raw)[1]}],
                             _game_state')
        /\ GuiFrame

\* submit_from_field before a round, with no letter, or with a used letter
GuiSubmitRefused ==
    \E raw \in FieldInputs :
        /\ gui.modal = ""
        /\ ~field_accepted(gui, _game_state, raw)
        /\ GuiNoCall
        /\ UNCHANGED gui
        /\ GuiFrame

\* a scheduled on_tick runs and the count is above 0
GuiTick ==
    \E job \in gui.pending :
        /\ gui.tick_box - 1 > 0
        /\ gui' = on_tick([gui EXCEPT !.pending = @ \ {job}, !.tick_box = @ - 1],
                          _game_state)
        /\ GuiNoCall
        /\ GuiFrame

\* a scheduled on_tick runs and the count reaches 0: core.timeout()
GuiTickTimeout ==
    \E job \in gui.pending :
        /\ gui.tick_box - 1 <= 0
        /\ _game_state' = timeout(_game_state).state
        /\ outcome' = timeout(_game_state).out
        /\ timeouts' = timeouts + 1
        /\ call' = [op |-> "timeout"]
        /\ prev' = Snapshot
        /\ UNCHANGED _prng
        /\ gui' = on_tick([gui EXCEPT !.pending = @ \ {job}, !.tick_box = @ - 1],
                          _game_state')
        /\ GuiFrame

\* the player closes the dialog and the waiting handler goes on
GuiCloseDialog ==
    /\ gui.modal # ""
    /\ gui' = after_dialog(gui, _game_state)
    /\ GuiNoCall
    /\ GuiFrame

GuiNext ==
    \/ GuiBeginRound
    \/ GuiClick
    \/ GuiSubmit
    \/ GuiSubmitRefused
    \/ GuiTick
    \/ GuiTickTimeout
    \/ GuiCloseDialog

SpecGui == GuiInit /\ [][GuiNext]_vars

----------------------------------------------------------------------------
(* run_cli and timed_input.  cli.pc is the place of the main thread: "start" *)
(* before core.start, "loop" at the top of while True, "wait" in the while   *)
(* loop of timed_input, "check" after it, "done" after break.  cli.turn      *)
(* counts the calls of timed_input; reader thread r and queue r are those of *)
(* the r-th call.  cli.stdin holds the lines typed and not yet read;         *)
(* cli.typed records every line typed, and in `during` the turn whose        *)
(* countdown was running, with that turn's reader waiting for input and no   *)
(* line unread, when it was typed (0 otherwise).  cli.log records the        *)
(* engine transitions applied, each with its turn and the line it was given. *)
(* A reader thread does not wait when a line is there to read: reader_task   *)
(* runs from the return of input() to its end within the step that makes the *)
(* line available to it, so a line stays in cli.stdin only while no reader   *)
(* is blocked in input().  Which of several blocked readers gets a line is   *)
(* not fixed.  sec_left, a local of timed_input, is 0 outside a call.        *)

\* timed_input("Enter a letter: ", 15)
CliSeconds == 15

\* the lines the player types
LineTexts == { <<" ", "t">>, <<"r">>, <<"e">> }

\* pipe = Queue(): the queue reader r puts its line in
queue_shared(r) == 1

queue_of(r) == r

\* worker.is_alive() for the reader of turn r
is_alive(c, r) == c.readers[r].status = "blocked"

\* reader_task of reader r: input() returns the first unread line if there is
\* one, pipe.put(line)
reader_task(c, r) ==
    IF c.stdin = << >> THEN c ELSE
    [c EXCEPT !.stdin = Tail(@),
              !.queues[queue_of(r)] = Append(@, Head(c.stdin)),
              !.readers[r] = [status |-> "dead", line |-> Head(c.stdin),
                              late |-> \E k \in DOMAIN c.log : c.log[k].turn = r]]

\* what timed_input returns once its loop has ended: None, or the line of
\* pipe.get()
timed_input_line(c) ==
    IF is_alive(c, c.turn) THEN 0 ELSE Head(c.queues[queue_of(c.turn)])

\* the engine transitions run_cli applies for the result of timed_input, line
\* being the number of the line returned (0 for None) and shot its text
take_turn_no_continue(gs, line, shot) ==
    IF line = 0
    THEN [state |-> guess(timeout(gs).state, None).state,
          ops |-> << [op |-> "timeout", line |-> 0], [op |-> "guess", line |-> 0] >>]
    ELSE [state |-> guess(gs, shot).state, ops |-> << [op |-> "guess", line |-> line] >>]

take_turn(gs, line, shot) ==
    IF line = 0
    THEN [state |-> timeout(gs).state, ops |-> << [op |-> "timeout", line |-> 0] >>]
    ELSE [state |-> guess(gs, shot).state, ops |-> << [op |-> "guess", line |-> line] >>]

\* the text of line number n, stripped as timed_input returns it
shot_of(c, n) == IF n = 0 THEN None ELSE Str(Strip(c.typed[n].text))

CliInit ==
    /\ _lexicon = Pool(WORDS)
    /\ _idioms = Pool(PHRASES)
    /\ _life_pool = GuiLives
    /\ _game_state = None
    /\ _prng = 0
    /\ timeouts = 0
    /\ call = [op |-> "__init__"]
    /\ outcome = Return(None)
    /\ prev = [state |-> None, prng |-> 0]
    /\ heap = NoHeap
    /\ gui = NoGui
    /\ cli = [running |-> TRUE, pc |-> "start", turn |-> 0, sec_left |-> 0,
              readers |-> << >>, queues |-> << >>, stdin |-> << >>,
              typed |-> << >>, log |-> << >>]

CliFrame == UNCHANGED <<_lexicon, _idioms, _life_pool, heap, gui>>

CliNoCall == UNCHANGED <<_game_state, _prng, timeouts, call, outcome, prev>>

\* core.start(mode)
CliStart ==
    \E mode \in Difficulties :
        \E pick \in DOMAIN StartPool(mode) :
            /\ cli.pc = "start"
            /\ _game_state' = start(_game_state, mode, pick).state
            /\ _prng' = _prng + start(_game_state, mode, pick).drawn
            /\ outcome' = start(_game_state, mode, pick).out
            /\ timeouts' = 0
            /\ call' = [op |-> "start", arg |-> mode]
            /\ prev' = Snapshot
            /\ cli' = [cli EXCEPT !.pc = "loop"]
            /\ CliFrame

\* the round is won or lost: break
CliBreak ==
    /\ cli.pc = "loop"
    /\ Terminal(_game_state)
    /\ cli' = [cli EXCEPT !.pc = "done"]
    /\ CliNoCall
    /\ CliFrame

\* the state of the CLI with a line typed: stdin has it, and typed records it
enter_line(c, text) ==
    [c EXCEPT !.stdin = Append(@, Len(c.typed) + 1),
              !.typed = Append(@, [text |-> text,
                                   during |-> IF /\ c.pc = "wait"
                                                 /\ c.sec_left > 0
                                                 /\ c.stdin = << >>
                                                 /\ is_alive(c, c.turn)
                                              THEN c.turn ELSE 0])]

\* timed_input is called: a queue, a reader thread, sec_left = timeout
CliTurn ==
    /\ cli.pc = "loop"
    /\ ~Terminal(_game_state)
    /\ cli.turn < MaxTurns
    /\ cli' = reader_task(
                 [cli EXCEPT !.pc = "wait",
                             !.turn = @ + 1,
                             !.sec_left = CliSeconds,
                             !.queues = Append(@, << >>),
                             !.readers = Append(@, [status |-> "blocked", line |-> 0,
                                                    late |-> FALSE])],
                 cli.turn + 1)
    /\ CliNoCall
    /\ CliFrame

\* while sec_left > 0 and worker.is_alive(): sleep(1); sec_left -= 1
CliSleep ==
    /\ cli.pc = "wait"
    /\ cli.sec_left > 0
    /\ is_alive(cli, cli.turn)
    /\ cli' = [cli EXCEPT !.sec_left = @ - 1]
    /\ CliNoCall
    /\ CliFrame

\* the while loop of timed_input ends
CliWaitOver ==
    /\ cli.pc = "wait"
    /\ ~(cli.sec_left > 0 /\ is_alive(cli, cli.turn))
    /\ cli' = [cli EXCEPT !.pc = "check"]
    /\ CliNoCall
    /\ CliFrame

\* timed_input returns and run_cli applies its result to the engine
CliApply ==
    /\ cli.pc = "check"
    /\ _game_state' = take_turn(_game_state, timed_input_line(cli),
                                shot_of(cli, timed_input_line(cli))).state
    /\ timeouts' = IF timed_input_line(cli) = 0 THEN timeouts + 1 ELSE timeouts
    /\ call' = IF timed_input_line(cli) = 0 THEN [op |-> "timeout"]
               ELSE [op |-> "guess", arg |-> shot_of(cli, timed_input_line(cli))]
    /\ outcome' = Return(_game_state')
    /\ prev' = Snapshot
    /\ UNCHANGED _prng
    /\ cli' = [cli EXCEPT
                 !.pc = "loop",
                 !.sec_left = 0,
                 !.queues = IF timed_input_line(cli) = 0 THEN @
                            ELSE [@ EXCEPT ![queue_of(cli.turn)] = Tail(@)],
                 !.log = @ \o [k \in DOMAIN take_turn(_game_state, timed_input_line(cli),
                                                     shot_of(cli, timed_input_line(cli))).ops |->
                                 [turn |-> cli.turn,
                                  op |-> take_turn(_game_state, timed_input_line(cli),
                                                   shot_of(cli, timed_input_line(cli))).ops[k].op,
                                  line |-> take_turn(_game_state, timed_input_line(cli),
                                                     shot_of(cli, timed_input_line(cli))).ops[k].line]]]
    /\ CliFrame

\* the player types a line and presses Enter while a reader thread is blocked
\* in input(): that reader gets the line
PlayerEnter ==
    \E r \in DOMAIN cli.readers, text \in LineTexts :
        /\ cli.running
        /\ cli.pc \in {"loop", "wait", "check"}
        /\ Len(cli.typed) < MaxLines
        /\ is_alive(cli, r)
        /\ cli' = reader_task(enter_line(cli, text), r)
        /\ CliNoCall
        /\ CliFrame

\* the player types a line and presses Enter while no reader thread is blocked
\* in input(): the line waits for the next reader
PlayerEnterAhead ==
    \E text \in LineTexts :
    /\ cli.running
    /\ cli.pc \in {"loop", "wait", "check"}
    /\ Len(cli.typed) < MaxLines
    /\ \A r \in DOMAIN cli.readers : ~is_alive(cli, r)
    /\ cli' = enter_line(cli, text)
    /\ CliNoCall
    /\ CliFrame

CliNext ==
    \/ CliStart
    \/ CliBreak
    \/ CliTurn
    \/ CliSleep
    \/ CliWaitOver
    \/ CliApply
    \/ PlayerEnter
    \/ PlayerEnterAhead

SpecCli == CliInit /\ [][CliNext]_vars

----------------------------------------------------------------------------
(* The claims *)

\* The letter a guess input stands for once trimmed and uppercased, "" when the
\* input is malformed: stated input by input, apart from the model of guess().
ExpectedLetter(letter) ==
    CASE letter = Str(<<"a">>) -> "A"
      [] letter = Str(<<"A">>) -> "A"
      [] letter = Str(<<"b">>) -> "B"
      [] letter = Str(<<"B">>) -> "B"
      [] letter = Str(<<"z">>) -> "Z"
      [] letter = Str(<<"Z">>) -> "Z"
      [] letter = Str(<<" ", "y", "\n">>) -> "Y"
      [] OTHER -> ""

\* the last call was op, made while a round was active
ActiveCall(op) == call.op = op /\ prev.state # None

\* the last call was guess with a well-formed letter not yet guessed
NewLetterGuess ==
    /\ ActiveCall("guess")
    /\ ExpectedLetter(call.arg) # ""
    /\ ExpectedLetter(call.arg) \notin prev.state.guessed

\* the last call was guess with a letter already guessed
RepeatGuess ==
    /\ ActiveCall("guess")
    /\ ExpectedLetter(call.arg) # ""
    /\ ExpectedLetter(call.arg) \in prev.state.guessed

\* the last call was guess with a malformed input
MalformedGuess == ActiveCall("guess") /\ ExpectedLetter(call.arg) = ""

\* C1: in an active round, guess with a well-formed letter that is not yet in
\* guessed adds exactly that letter to guessed, leaves answer unchanged, takes
\* exactly one life if the letter does not occur in answer and none if it does;
\* the state returned is the state stored.
C1_GuessNewLetter ==
    NewLetterGuess =>
        /\ _game_state.guessed = prev.state.guessed \cup {ExpectedLetter(call.arg)}
        /\ _game_state.answer = prev.state.answer
        /\ ExpectedLetter(call.arg) \notin Chars(prev.state.answer)
              => _game_state.lives = prev.state.lives - 1
        /\ ExpectedLetter(call.arg) \in Chars(prev.state.answer)
              => _game_state.lives = prev.state.lives
        /\ outcome = Return(_game_state)

\* a right letter was guessed after a wrong one had cost a life
C1_Witness ==
    /\ NewLetterGuess
    /\ ExpectedLetter(call.arg) \in Chars(prev.state.answer)
    /\ prev.state.lives < _life_pool
    /\ prev.state.guessed # {}
    /\ _game_state.lives = prev.state.lives

\* C2: in an active round, guess with a letter that is already in guessed is a
\* no-op: the stored and the returned state have the answer, lives and guessed
\* they had before, whether the letter was right or wrong.
C2_RepeatNoOp ==
    RepeatGuess =>
        /\ _game_state = prev.state
        /\ outcome = Return(prev.state)

\* a wrong letter was guessed again
C2_Witness ==
    /\ RepeatGuess
    /\ ExpectedLetter(call.arg) \notin Chars(prev.state.answer)
    /\ _game_state.lives = prev.state.lives

\* C3: in an active round, guess with a malformed input raises nothing and
\* leaves answer, lives and guessed unchanged.
C3_MalformedIgnored ==
    MalformedGuess =>
        /\ outcome = Return(prev.state)
        /\ _game_state = prev.state

\* a digit was guessed in a round with lives left
C3_Witness ==
    /\ MalformedGuess
    /\ call.arg = Str(<<"1">>)
    /\ _game_state.lives > 0

\* C4: in an active round in any state, timeout takes exactly one life, with
\* no floor, and leaves answer and guessed unchanged.
C4_TimeoutDecrements ==
    ActiveCall("timeout") =>
        /\ _game_state.lives = prev.state.lives - 1
        /\ _game_state.answer = prev.state.answer
        /\ _game_state.guessed = prev.state.guessed
        /\ outcome = Return(_game_state)

\* timeout was applied to a round with no lives left and some letters guessed
C4_Witness ==
    /\ ActiveCall("timeout")
    /\ prev.state.lives <= 0
    /\ prev.state.guessed # {}
    /\ _game_state.lives < 0

\* every non-space character of the answer is in guessed
Revealed(s) == (Chars(s.answer) \ {" "}) \subseteq s.guessed

\* C5: in every reachable state of a round, is_won is true iff every non-space
\* character of answer is in guessed, is_lost is true iff lives <= 0 and is_won
\* is false, and the two are never both true.
C5_WonLost ==
    _game_state # None =>
        /\ is_won(_game_state) <=> Revealed(_game_state)
        /\ is_lost(_game_state) <=> (_game_state.lives <= 0 /\ ~Revealed(_game_state))
        /\ ~(is_won(_game_state) /\ is_lost(_game_state))

\* a non-empty answer is fully revealed with no lives left
C5_Witness ==
    /\ _game_state # None
    /\ _game_state.answer # << >>
    /\ Revealed(_game_state)
    /\ _game_state.lives <= 0

\* C6: state, guess and timeout on an engine on which start has never succeeded
\* raise the 'game not started' error, for every argument, and leave the engine
\* with no round; and the engine has no round exactly when no start succeeded.
C6_NotStarted ==
    /\ (call.op \in {"state", "guess", "timeout"} /\ prev.state = None) =>
          /\ outcome = Raise("RuntimeError", "game not started")
          /\ _game_state = None
    /\ (_game_state = None) <=> (_prng = 0)

\* a well-formed guess was made on an engine with no round started
C6_Witness ==
    /\ call.op = "guess"
    /\ prev.state = None
    /\ ExpectedLetter(call.arg) = "A"
    /\ _game_state = None

\* the answers start may draw for a difficulty
PoolAnswers(difficulty) ==
    IF difficulty = "basic"
    THEN {_normalize_answer(Str(_lexicon[i])) : i \in DOMAIN _lexicon}
    ELSE {_normalize_answer(Str(_idioms[i])) : i \in DOMAIN _idioms}

\* C7: start with a valid difficulty, from any engine state, replaces the round
\* with one whose lives is the configured life count, whose guessed is empty
\* and whose answer is the normalization of an entry of the word pool ('basic')
\* or of the phrase pool ('intermediate'): uppercase letters and spaces only,
\* with no leading or trailing space.
C7_StartFresh ==
    (call.op = "start" /\ call.arg \in {"basic", "intermediate"}) =>
        /\ outcome = Return(_game_state)
        /\ _game_state.lives = _life_pool
        /\ _game_state.guessed = {}
        /\ _game_state.answer \in PoolAnswers(call.arg)
        /\ Chars(_game_state.answer) \subseteq Chars(ascii_uppercase) \cup {" "}
        /\ _game_state.answer # << >> =>
              /\ Head(_game_state.answer) # " "
              /\ _game_state.answer[Len(_game_state.answer)] # " "

\* a phrase round was started over a round that was lost
C7_Witness ==
    /\ call.op = "start"
    /\ call.arg = "intermediate"
    /\ prev.state # None
    /\ is_lost(prev.state)
    /\ prev.state.guessed # {}
    /\ _game_state.guessed = {}

\* C8: start with any other difficulty raises the invalid-argument error and
\* mutates nothing: the round, or the absence of one, is as before and no draw
\* is taken from the random source.
C8_StartInvalid ==
    (call.op = "start" /\ call.arg \notin {"basic", "intermediate"}) =>
        /\ outcome = Raise("ValueError", "difficulty must be 'basic' or 'intermediate'")
        /\ _game_state = prev.state
        /\ _prng = prev.prng

\* start("Basic") was refused while a round with guesses was active
C8_Witness ==
    /\ call.op = "start"
    /\ call.arg = "Basic"
    /\ prev.state # None
    /\ prev.state.guessed # {}
    /\ _game_state = prev.state

\* the token masked emits for the i-th character of the answer
ExpectedToken(s, i) ==
    IF s.answer[i] = " " THEN " "
    ELSE IF s.answer[i] \in s.guessed THEN s.answer[i]
    ELSE "_"

\* masked is the tokens of the answer joined by single spaces
MaskedTokens(s) ==
    /\ \A i \in 1 .. Len(s.answer) : masked(s)[2 * i - 1] = ExpectedToken(s, i)
    /\ \A i \in 1 .. Len(s.answer) - 1 : masked(s)[2 * i] = " "
    /\ Chars(masked(s)) \cap (Chars(s.answer) \ ({" "} \cup s.guessed)) = {}

\* C9: in every reachable state, masked has one token per character of answer,
\* joined by single spaces, so its length is 2 * length(answer) - 1; every
\* occurrence of a guessed letter is revealed and no unguessed letter appears.
C9_Masked ==
    _game_state # None =>
        /\ Len(masked(_game_state)) = 2 * Len(_game_state.answer) - 1
        /\ MaskedTokens(_game_state)

\* C10: guessing is case-insensitive: from every reachable state and for every
\* letter, guess with the lowercase form stores and returns exactly what guess
\* with the uppercase form does.
C10_CaseInsensitive ==
    \A i \in DOMAIN ascii_uppercase :
        guess(_game_state, Str(<< ascii_lowercase[i] >>))
            = guess(_game_state, Str(<< ascii_uppercase[i] >>))

\* a lowercase letter was guessed and its uppercase form entered guessed
C10_Witness ==
    /\ ActiveCall("guess")
    /\ call.arg = Str(<<"a">>)
    /\ "A" \notin prev.state.guessed
    /\ "A" \in _game_state.guessed

\* s contains a space
HasSpace(s) == " " \in Chars(s)

IsLetter(ch) == In(ch, ascii_uppercase) \/ In(ch, ascii_lowercase)

\* s contains a space with a letter somewhere before it and somewhere after it
HasInnerSpace(s) ==
    \E i, j, k \in DOMAIN s :
        i < j /\ j < k /\ IsLetter(s[i]) /\ s[j] = " " /\ IsLetter(s[k])

\* the last call was a successful start("intermediate")
StartedIntermediate ==
    call.op = "start" /\ call.arg = "intermediate" /\ outcome.kind = "return"

\* C11 (as stated): for 'intermediate', whenever every entry of the phrase pool
\* contains a space, the answer of the started round contains a space.
C11_AnySpace ==
    (StartedIntermediate /\ \A i \in DOMAIN _idioms : HasSpace(_idioms[i]))
        => HasSpace(_game_state.answer)

\* C11 (amended): for 'intermediate', whenever every entry of the phrase pool
\* contains a space with a letter before it and a letter after it, the answer
\* of the started round contains a space, and masked shows a space token at
\* that position.
C11_InnerSpace ==
    (StartedIntermediate /\ \A i \in DOMAIN _idioms : HasInnerSpace(_idioms[i]))
        => /\ HasSpace(_game_state.answer)
           /\ \E i \in DOMAIN _game_state.answer :
                 /\ _game_state.answer[i] = " "
                 /\ masked(_game_state)[2 * i - 1] = " "

\* a phrase round was started from a pool whose entries hold punctuation, outer
\* whitespace and lowercase letters around their inner spaces
C11_Witness ==
    /\ StartedIntermediate
    /\ \A i \in DOMAIN _idioms : HasInnerSpace(_idioms[i])
    /\ \E i \in DOMAIN _idioms : Chars(_idioms[i]) \cap {"!", "y"} # {}
    /\ HasSpace(_game_state.answer)

\* C13: in every reachable state guessed holds only single uppercase letters
\* A-Z, and within a round guessed only grows: after any guess or timeout it is
\* a superset of what it was (only start empties it).
C13_GuessedLetters ==
    /\ _game_state # None => _game_state.guessed \subseteq Chars(ascii_uppercase)
    /\ (ActiveCall("guess") \/ ActiveCall("timeout"))
          => prev.state.guessed \subseteq _game_state.guessed

\* a timeout was applied to a round with letters guessed, after which they are
\* all still there
C13_Witness ==
    /\ ActiveCall("timeout")
    /\ Cardinality(prev.state.guessed) >= 2
    /\ _game_state.guessed = prev.state.guessed

\* the letters of guessed that do not occur in the answer
Misses(s) == {g \in s.guessed : g \notin Chars(s.answer)}

\* C14: within a round lives is never incremented: in every state reachable
\* after start, lives is the configured life count minus the number of letters
\* in guessed that do not occur in answer minus the number of timeouts since
\* start.
C14_LivesAccount ==
    /\ _game_state # None =>
          _game_state.lives
              = _life_pool - Cardinality(Misses(_game_state)) - timeouts
    /\ (ActiveCall("guess") \/ ActiveCall("timeout"))
          => _game_state.lives <= prev.state.lives

\* a round with a right guess, two wrong guesses and a timeout behind it
C14_Witness ==
    /\ _game_state # None
    /\ Cardinality(Misses(_game_state)) = 2
    /\ _game_state.guessed # Misses(_game_state)
    /\ timeouts >= 1

\* the last call was a guess or a timeout on a round that was lost
CallOnLost ==
    /\ ActiveCall("guess") \/ ActiveCall("timeout")
    /\ is_lost(prev.state)

\* C17 (as stated): once is_lost is true it stays true after every further
\* guess and timeout on that round.
C17_LostStaysLost == CallOnLost => is_lost(_game_state)

\* C17 (amended): once is_lost is true, lives stays at or below zero after
\* every further guess and timeout on that round, and is_lost stays true unless
\* the call is a guess of a letter of the answer that reveals its last hidden
\* letter: the round is then won, not lost.
C17_LostUntilRevealed ==
    CallOnLost =>
        /\ _game_state.lives <= 0
        /\ \/ is_lost(_game_state)
           \/ /\ call.op = "guess"
              /\ ExpectedLetter(call.arg) \in Chars(prev.state.answer)
              /\ ExpectedLetter(call.arg) \notin prev.state.guessed
              /\ Revealed(_game_state)
              /\ is_won(_game_state)

\* a lost round was guessed on with a right letter and is still lost
C17_Witness ==
    /\ CallOnLost
    /\ call.op = "guess"
    /\ ExpectedLetter(call.arg) \in Chars(prev.state.answer)
    /\ ExpectedLetter(call.arg) \notin prev.state.guessed
    /\ is_lost(_game_state)

\* the distinct letters of an answer
Letters(s) == Chars(s.answer) \ {" "}

\* the state-changing calls applied to the round: every new letter entered
\* guessed, every timeout was counted
Changes == Cardinality(_game_state.guessed) + timeouts

\* C18: a round started with a positive life count L and an answer of n >= 1
\* distinct letters is won or lost after at most L + n - 1 state-changing calls
\* (guesses of new letters, timeouts); L timeouts or wrong guesses with no win
\* make it lost.
C18_RoundEnds ==
    (_game_state # None /\ _life_pool > 0 /\ Letters(_game_state) # {}) =>
        /\ Changes >= _life_pool + Cardinality(Letters(_game_state)) - 1
              => is_won(_game_state) \/ is_lost(_game_state)
        /\ (Cardinality(Misses(_game_state)) + timeouts >= _life_pool
               /\ ~is_won(_game_state))
              => is_lost(_game_state)

\* a round of two lives and two letters is lost by its third state-changing
\* call, a right guess, a wrong guess and a timeout
C18_Witness ==
    /\ _game_state # None
    /\ _life_pool = 2
    /\ Cardinality(Letters(_game_state)) = 2
    /\ Changes = 3
    /\ timeouts = 1
    /\ Cardinality(Misses(_game_state)) = 1
    /\ is_lost(_game_state)

\* C19: immediately after every successful start the new round is neither won
\* nor lost: the answer has a letter to reveal and lives is greater than 0.
C19_StartNotTerminal ==
    (call.op = "start" /\ outcome.kind = "return") =>
        /\ ~is_won(_game_state)
        /\ ~is_lost(_game_state)
        /\ Letters(_game_state) # {}
        /\ _game_state.lives > 0

\* C12: a snapshot returned by start, state, guess or timeout is never altered
\* by the engine afterwards: after any later sequence of calls, a snapshot the
\* caller retained still shows the answer, lives and guessed it had when it
\* was returned.
C12_SnapshotKept ==
    heap.held # 0 => Deref(heap, heap.held) = heap.seen

\* the caller holds a snapshot of a round the engine has since replaced by a
\* state with one more letter in guessed
C12_Witness ==
    /\ heap.held # 0
    /\ heap.engine # heap.held
    /\ heap.objects[heap.engine].answer = heap.seen.answer
    /\ heap.seen.guessed # Deref(heap, heap.engine).guessed
    /\ heap.seen.guessed \subseteq Deref(heap, heap.engine).guessed

\* C15: in the GUI, at every point between events at most one countdown
\* callback is pending, and none while the current round is won or lost;
\* neither timeout() nor guess() is applied to a round that is already won or
\* lost.
C15_TimerDiscipline ==
    gui.running =>
        /\ Cardinality(gui.pending) <= 1
        /\ (_game_state # None /\ Terminal(_game_state)) => gui.pending = {}
        /\ _game_state = None => gui.pending = {}
        /\ call.op \in {"guess", "timeout"} => ~Terminal(prev.state)

\* a second round was lost by a timeout: its dialog is open and no callback is
\* pending
C15_Witness ==
    /\ gui.running
    /\ _prng = 2
    /\ call.op = "timeout"
    /\ is_lost(_game_state)
    /\ gui.modal = "on_tick"
    /\ gui.pending = {}

\* the turns whose timed_input has returned
TurnsOver ==
    IF cli.pc \in {"wait", "check"} THEN 1 .. cli.turn - 1 ELSE 1 .. cli.turn

\* the log entries of turn i
LogOf(i) == {k \in DOMAIN cli.log : cli.log[k].turn = i}

\* C16: in the CLI each turn applies exactly one transition to the engine,
\* timeout() when timed_input returned None and otherwise guess(line), the line
\* being the one that turn's own reader received; a line that a reader thread
\* receives after its turn has timed out is never passed to guess and stays in
\* that call's own queue.
C16_OneTransitionPerTurn ==
    cli.running =>
        /\ \A i \in 1 .. cli.turn :
              Cardinality(LogOf(i)) = IF i \in TurnsOver THEN 1 ELSE 0
        /\ \A k \in DOMAIN cli.log :
              /\ cli.log[k].op = "timeout" =>
                    /\ cli.log[k].line = 0
                    /\ cli.readers[cli.log[k].turn].late
                          \/ is_alive(cli, cli.log[k].turn)
              /\ cli.log[k].op = "guess" =>
                    /\ cli.log[k].line # 0
                    /\ cli.readers[cli.log[k].turn].line = cli.log[k].line
                    /\ ~cli.readers[cli.log[k].turn].late
        /\ \A r \in DOMAIN cli.readers :
              cli.readers[r].late =>
                  /\ cli.queues[r] = << cli.readers[r].line >>
                  /\ \A k \in DOMAIN cli.log : cli.log[k].line # cli.readers[r].line

\* the reader of a timed-out turn received a line late, and a later turn
\* passed another line to guess
C16_Witness ==
    /\ cli.running
    /\ \E r \in DOMAIN cli.readers :
          /\ cli.readers[r].late
          /\ \E k \in DOMAIN cli.log :
                /\ cli.log[k].turn > r
                /\ cli.log[k].op = "guess"
                /\ cli.log[k].line > cli.readers[r].line

\* C20: in the CLI a line the player enters while a turn's countdown is running
\* is returned by that turn's timed_input and applied to the engine as that
\* turn's guess, in every turn, also after a timed-out turn.
C20_LineReachesItsTurn ==
    cli.running =>
        \A n \in DOMAIN cli.typed :
            (cli.typed[n].during # 0 /\ cli.typed[n].during \in TurnsOver) =>
                \E k \in LogOf(cli.typed[n].during) :
                    cli.log[k].op = "guess" /\ cli.log[k].line = n

====
